---- MODULE Spec2Model ----
(***************************************************************************)
(* Call-state reconciliation of server.js: the in-memory call store, the   *)
(* recording index, the WebSocket fan-out and the HTTP / webhook handlers  *)
(* that update them, together with the telephony provider they talk to.    *)
(*                                                                         *)
(* Each handler is one action per run-to-completion segment: a handler     *)
(* that awaits the provider is split at the await (Start / Resume), the    *)
(* provider serving the request at the Start step and the reply reaching   *)
(* the handler at the Resume step, so that any other handler may run in    *)
(* between.  Records are JavaScript objects: calls[s] is the object made   *)
(* for sid s and activeCalls the set of sids whose object is in the Map,   *)
(* so a closure that captured the object still writes to it after          *)
(* activeCalls.delete.                                                     *)
(***************************************************************************)
EXTENDS Integers, Sequences, FiniteSets, Bags, TLC

(* ---------------------------- bounds ----------------------------------- *)
\* Number of clock advances in one behaviour.
MaxTicks == 1
\* Number of timers pending at once.
MaxTimers == 2
\* Date.now() when the server starts (milliseconds).
StartTime == 1000

\* Call sids seen by the server.  The provider issues the sids of IssuedSids
\* to make-call; the other sids name calls the store has no record of.
Sids == {"CA1", "CA2"}
IssuedSids == {"CA1"}
\* WebSocket connections.
Clients == {"w1", "w2"}
\* Clock advances (milliseconds): past the retention window, and not by a
\* whole number of seconds.
TickSteps == {600500}
\* Values of the CallDuration / RecordingDuration form fields and of the
\* provider's call.duration; "" is an absent (undefined / null) field.
DurStrings == {"", "0", "7"}
\* Values of the RecordingDuration form field in the runs about recordings.
RecordingDurations == {"7"}
\* Values of the RecordingUrl form field; "" is an absent field.
UrlInputs == {"", "https://x/y"}
\* Values of the `to` field of make-call.
ToInputs == {"", "+15550001"}

(* ------------------------ program constants ---------------------------- *)
\* setTimeout delay of the recording lookup.
RecordingDelayMs == 3000
\* setTimeout delay of the clean-up of a finished call: 10 * 60 * 1000.
RetentionMs == 10 * 60 * 1000
\* error.code the hangup handler treats as success.
NotFoundCode == 20404
\* error.code values of a rejected calls.update: the resource is not found,
\* or the call is not in a state that can be updated.
ErrorCodes == {NotFoundCode, 21220}
\* Divisor of the millisecond difference in the duration computations.
MsPerSecond == 1000

terminalStatuses == {"completed", "busy", "no-answer", "canceled", "failed"}
\* Statuses for which GET /call-status asks the provider.
activeStatuses == {"in-progress", "ringing", "queued", "initiated"}
Statuses == activeStatuses \cup terminalStatuses

\* null / undefined, for fields holding a string or a sid.
Null == ""
\* NaN, the result of parseInt on a string with no leading digits.
NaN == 0 - 1

(* ----------------------------- helpers --------------------------------- *)
\* parseInt(str) on the field values of DurStrings.
ParseInt(str) ==
    CASE str = "0" -> 0
      [] str = "7" -> 7
      [] OTHER -> NaN

\* JavaScript truthiness of a number (NaN and 0 are falsy) and of a string.
TruthyNum(n) == n # NaN /\ n # 0
TruthyStr(str) == str # ""

\* a || b on numbers.
OrNum(a, b) == IF TruthyNum(a) THEN a ELSE b

\* Math.floor((Date.now() - answeredTime) / 1000)
ElapsedSeconds(t, answeredTime) == (t - answeredTime) \div MsPerSecond

\* Mutant: the record is stored with the provider's first status.
NewCallQueued ==
    [status |-> "queued", duration |-> 0, answeredTime |-> 0,
     recordingUrl |-> Null, recordingSid |-> Null]

\* The object make-call stores.  answeredTime = 0 is the missing property
\* (startTime, to, name and lastUpdate are written and never read).
NewCall ==
    [status |-> "initiated", duration |-> 0, answeredTime |-> 0,
     recordingUrl |-> Null, recordingSid |-> Null]

\* No object was ever made for the sid.
NoCall ==
    [status |-> "none", duration |-> 0, answeredTime |-> 0,
     recordingUrl |-> Null, recordingSid |-> Null]

\* Order of the lifecycle: queued / initiated, ringing, in-progress, terminal.
Rank(st) ==
    CASE st \in {"queued", "initiated"} -> 0
      [] st = "ringing" -> 1
      [] st = "in-progress" -> 2
      [] st \in terminalStatuses -> 3
      [] OTHER -> 0 - 1

VARIABLES
    now,                \* Date.now()
    ticks,              \* clock advances so far
    twilioClient,       \* TRUE iff the Twilio client was initialised
    activeCalls,        \* sids that are keys of the activeCalls Map
    calls,              \* sid -> the call object made for that sid
    recordingsMap,      \* sid -> recording descriptor, or NoRecording
    wsClients,          \* the wsClients Set
    readyState,         \* client -> "OPEN" | "CLOSING" | "CLOSED"
    subscribedCallSid,  \* client -> ws.subscribedCallSid (Null if unset)
    timers,             \* the bag of pending setTimeout callbacks
    provider,           \* sid -> the provider's view of the call
    makeReq,            \* the make-call request suspended at calls.create
    pending,            \* sid -> the request for that call suspended at an
                        \* await: a status query (calls.fetch) or a hangup
                        \* (calls.update); one at a time for each call
    out                 \* what the last step sent: events, then a response

vars == <<now, ticks, twilioClient, activeCalls, calls, recordingsMap, wsClients,
          readyState, subscribedCallSid, timers, provider, makeReq, pending,
          out>>

storeVars == <<activeCalls, calls, recordingsMap>>
wsVars == <<wsClients, readyState, subscribedCallSid>>
reqVars == <<makeReq, pending>>
clockVars == <<now, ticks>>

NoRecording == [sid |-> Null, url |-> Null, duration |-> 0]
Idle == [pc |-> "idle"]

(* --------------------------- the provider ------------------------------ *)
\* hist: the statuses the call has been through at the provider (empty: the
\* provider does not know the sid); duration: call.duration; recording: a
\* recording of the call is listed.
NoProviderCall == [hist |-> {}, duration |-> "", recording |-> FALSE]

\* call.duration values of a call that was answered and has completed.
ProviderDurations == {"7"}

\* call.status of a fetch: the latest status of the call.
Current(hist) == CHOOSE st \in hist : \A o \in hist : Rank(o) <= Rank(st)

\* Statuses a status callback for the call may carry now: callbacks are
\* delivered late, repeated and out of order, so any status the call has been
\* through ("initiated" is reported once the call is queued).
Deliverable(hist) == hist \cup (IF "queued" \in hist THEN {"initiated"} ELSE {})

\* Next statuses of a call at the provider.
ProviderNext(st) ==
    CASE st = "queued" -> {"ringing", "failed"}
      [] st = "ringing" -> {"in-progress", "busy", "no-answer", "canceled"}
      [] st = "in-progress" -> {"completed"}
      [] OTHER -> {}

\* recording.uri of the recording the provider lists for a call, as the
\* path and its extension.
RecordingUri(s) == <<"/Recordings/RE-" \o s, ".json">>
\* recording.sid and recording.duration of that recording.
ProviderRecordingSid(s) == "RE-" \o s
ProviderRecordingDuration(hist, duration) ==
    IF "in-progress" \in hist THEN OrNum(ParseInt(duration), 0) ELSE 0

\* The reply to calls(sid).fetch(): a rejection, or the call as it is now.
FetchReplies(call) ==
    {[ok |-> FALSE, status |-> Null, duration |-> ""]}
    \cup (IF call.hist = {} THEN {}
         ELSE {[ok |-> TRUE, status |-> Current(call.hist),
                duration |-> call.duration]})

(* ---------------------------- fan-out ---------------------------------- *)
\* Mutant: the subscription filter is ignored.
RecipientsUnfiltered(callSid) ==
    {c \in wsClients : readyState[c] = "OPEN"}

\* Mutant: a client that is not OPEN ends the loop, nobody is sent the message.
RecipientsAbort(callSid) ==
    IF \E c \in wsClients : readyState[c] # "OPEN" THEN {}
    ELSE {c \in wsClients :
            ~TruthyStr(subscribedCallSid[c]) \/ subscribedCallSid[c] = callSid}

\* The clients broadcastCallStatus sends the message to.
Recipients(callSid) ==
    {c \in wsClients :
        /\ readyState[c] = "OPEN"
        /\ (~TruthyStr(subscribedCallSid[c]) \/ subscribedCallSid[c] = callSid)}

\* broadcastCallStatus(callSid, status, duration, recordingUrl): the
\* CALL_STATUS_UPDATE message and the clients it is sent to.
broadcastCallStatus(callSid, status, duration, recordingUrl) ==
    [type |-> "CALL_STATUS_UPDATE", callSid |-> callSid, status |-> status,
     duration |-> duration, recordingUrl |-> recordingUrl, timestamp |-> now,
     to |-> Recipients(callSid)]

\* res.json / res.status(code).json of a handler.
Response(op, sid, code, status, duration, recordingUrl) ==
    [type |-> "RESPONSE", op |-> op, callSid |-> sid, code |-> code,
     status |-> status, duration |-> duration, recordingUrl |-> recordingUrl]

\* ws.send of a control message to one client.
WsMessage(c, type) == [type |-> type, to |-> {c}]

Init ==
    /\ now = StartTime
    /\ ticks = 0
    /\ twilioClient \in BOOLEAN
    /\ activeCalls = {}
    /\ calls = [s \in Sids |-> NoCall]
    /\ recordingsMap = [s \in Sids |-> NoRecording]
    /\ wsClients = {}
    /\ readyState = [c \in Clients |-> "CLOSED"]
    /\ subscribedCallSid = [c \in Clients |-> Null]
    /\ timers = EmptyBag
    /\ provider = [s \in Sids |-> NoProviderCall]
    /\ makeReq = Idle
    /\ pending = [s \in Sids |-> Idle]
    /\ out = <<>>

(* ------------------------------ clock ---------------------------------- *)
Tick ==
    /\ ticks < MaxTicks
    /\ \E d \in TickSteps : now' = now + d
    /\ ticks' = ticks + 1
    /\ out' = <<>>
    /\ UNCHANGED <<twilioClient, storeVars, wsVars, timers, provider, reqVars>>

(* ------------------------ the provider's steps ------------------------- *)
\* The call moves on at the provider (the callee's phone rings, the callee
\* answers, hangs up, ...).
ProviderAdvance(s) ==
    /\ provider[s].hist # {}
    /\ \E st \in ProviderNext(Current(provider[s].hist)) :
       \E d \in ProviderDurations :
          provider' = [provider EXCEPT
              ![s].hist = @ \cup {st},
              ![s].duration = IF st \notin terminalStatuses THEN ""
                              ELSE IF st = "completed" THEN d ELSE "0"]
    /\ out' = <<>>
    /\ UNCHANGED <<clockVars, twilioClient, storeVars, wsVars, timers, reqVars>>

\* The provider finishes processing the recording of a completed call.
ProviderRecordingReady(s) ==
    /\ provider[s].hist # {}
    /\ Current(provider[s].hist) = "completed"
    /\ ~provider[s].recording
    /\ provider' = [provider EXCEPT ![s].recording = TRUE]
    /\ out' = <<>>
    /\ UNCHANGED <<clockVars, twilioClient, storeVars, wsVars, timers, reqVars>>

(* ----------------------- POST /webhooks/call-status -------------------- *)
\* cachedCall.status = CallStatus
WebhookStatus(call, CallStatus) == [call EXCEPT !.status = CallStatus]

\* Mutant: the answer time is stamped at every in-progress webhook.
WebhookAnsweredAlways(call, CallStatus) ==
    IF CallStatus = "in-progress"
    THEN [call EXCEPT !.answeredTime = now]
    ELSE call

\* if (CallStatus === 'in-progress' && !cachedCall.answeredTime)
\*     cachedCall.answeredTime = Date.now()
WebhookAnswered(call, CallStatus) ==
    IF CallStatus = "in-progress" /\ call.answeredTime = 0
    THEN [call EXCEPT !.answeredTime = now]
    ELSE call

\* The local `duration` after the if / else-if on CallDuration of a cached call.
WebhookDuration(call, CallDuration) ==
    IF TruthyStr(CallDuration) THEN OrNum(ParseInt(CallDuration), 0)
    ELSE IF call.answeredTime # 0 THEN ElapsedSeconds(now, call.answeredTime)
    ELSE OrNum(ParseInt(CallDuration), 0)

\* cachedCall.duration = duration, in the two branches that assign it.
WebhookStoreDuration(call, CallDuration) ==
    IF TruthyStr(CallDuration) \/ call.answeredTime # 0
    THEN [call EXCEPT !.duration = WebhookDuration(call, CallDuration)]
    ELSE call

\* if (RecordingUrl) cachedCall.recordingUrl = RecordingUrl
WebhookRecordingUrl(call, RecordingUrl) ==
    IF TruthyStr(RecordingUrl) THEN [call EXCEPT !.recordingUrl = RecordingUrl]
    ELSE call

\* The record after the webhook's updates, in the order of the handler.
WebhookMerge(call, CallStatus, CallDuration, RecordingUrl) ==
    WebhookRecordingUrl(
        WebhookStoreDuration(
            WebhookAnswered(WebhookStatus(call, CallStatus), CallStatus),
            CallDuration),
        RecordingUrl)

\* Mutant: the clean-up is scheduled for a completed call only.
WebhookTimersCompletedOnly(s, call, CallStatus) ==
    IF CallStatus = "completed"
    THEN (IF ~TruthyStr(call.recordingUrl) /\ twilioClient
          THEN SetToBag({[kind |-> "lookup", sid |-> s, due |-> now + RecordingDelayMs]})
          ELSE EmptyBag)
         (+) SetToBag({[kind |-> "evict", sid |-> s, due |-> now + RetentionMs]})
    ELSE EmptyBag

\* The setTimeout calls of the webhook: the recording lookup of a
\* completed call with no recording URL, the clean-up of a finished call.
WebhookTimers(s, call, CallStatus) ==
    (IF CallStatus = "completed" /\ ~TruthyStr(call.recordingUrl) /\ twilioClient
     THEN SetToBag({[kind |-> "lookup", sid |-> s, due |-> now + RecordingDelayMs]})
     ELSE EmptyBag)
    (+)
    (IF CallStatus \in terminalStatuses
     THEN SetToBag({[kind |-> "evict", sid |-> s, due |-> now + RetentionMs]})
     ELSE EmptyBag)

\* Mutant: the timers are set whether or not the store has a record.
CallStatusWebhookAlwaysSchedules(s, CallStatus, CallDuration, RecordingUrl) ==
    LET cached == s \in activeCalls
        merged == WebhookMerge(calls[s], CallStatus, CallDuration, RecordingUrl)
        duration == IF cached
                    THEN WebhookDuration(WebhookAnswered(calls[s], CallStatus),
                                         CallDuration)
                    ELSE OrNum(ParseInt(CallDuration), 0)
        started == WebhookTimers(s, merged, CallStatus)
        url == IF TruthyStr(RecordingUrl) THEN RecordingUrl
               ELSE IF cached THEN merged.recordingUrl ELSE Null
    IN  /\ CallStatus \in Deliverable(provider[s].hist)
        /\ BagCardinality(timers) + BagCardinality(started) <= MaxTimers
        /\ calls' = IF cached THEN [calls EXCEPT ![s] = merged] ELSE calls
        /\ timers' = timers (+) started
        /\ out' = <<broadcastCallStatus(s, CallStatus, duration, url),
                    Response("call-status-webhook", s, 200, Null, 0, Null)>>
        /\ UNCHANGED <<clockVars, twilioClient, activeCalls, recordingsMap,
                       wsVars, provider, reqVars>>

\* The handler of POST /webhooks/call-status.
CallStatusWebhook(s, CallStatus, CallDuration, RecordingUrl) ==
    LET cached == s \in activeCalls
        merged == WebhookMerge(calls[s], CallStatus, CallDuration, RecordingUrl)
        duration == IF cached
                    THEN WebhookDuration(WebhookAnswered(calls[s], CallStatus),
                                         CallDuration)
                    ELSE OrNum(ParseInt(CallDuration), 0)
        started == IF cached THEN WebhookTimers(s, merged, CallStatus) ELSE EmptyBag
        url == IF TruthyStr(RecordingUrl) THEN RecordingUrl
               ELSE IF cached THEN merged.recordingUrl ELSE Null
    IN  /\ CallStatus \in Deliverable(provider[s].hist)
        /\ BagCardinality(timers) + BagCardinality(started) <= MaxTimers
        /\ calls' = IF cached THEN [calls EXCEPT ![s] = merged] ELSE calls
        /\ timers' = timers (+) started
        /\ out' = <<broadcastCallStatus(s, CallStatus, duration, url),
                    Response("call-status-webhook", s, 200, Null, 0, Null)>>
        /\ UNCHANGED <<clockVars, twilioClient, activeCalls, recordingsMap,
                       wsVars, provider, reqVars>>

(* ------------------------------ timers --------------------------------- *)
\* The timers whose delay has elapsed.
Due(kind) == {t \in BagToSet(timers) : t.kind = kind /\ t.due <= now}

\* Mutant: the clean-up drops the recording descriptor with the call record.
EvictionTimerDropsRecording(t) ==
    /\ t \in Due("evict")
    /\ activeCalls' = activeCalls \ {t.sid}
    /\ recordingsMap' = [recordingsMap EXCEPT ![t.sid] = NoRecording]
    /\ timers' = timers (-) SetToBag({t})
    /\ out' = <<>>
    /\ UNCHANGED <<clockVars, twilioClient, calls, wsVars, provider, reqVars>>

\* setTimeout(() => activeCalls.delete(CallSid), 10 * 60 * 1000)
EvictionTimer(t) ==
    /\ t \in Due("evict")
    /\ activeCalls' = activeCalls \ {t.sid}
    /\ timers' = timers (-) SetToBag({t})
    /\ out' = <<>>
    /\ UNCHANGED <<clockVars, twilioClient, calls, recordingsMap, wsVars,
                   provider, reqVars>>

\* `https://api.twilio.com${recording.uri.replace('.json', '.mp3')}`
RecordingUrlOf(uri) ==
    "https://api.twilio.com" \o uri[1] \o (IF uri[2] = ".json" THEN ".mp3" ELSE uri[2])

\* The delayed recording lookup of the webhook: recordings.list and, when a
\* recording is listed, the update of the object the closure captured, of the
\* recording index, and the recording-ready broadcast.  listed = FALSE is an
\* empty list or a rejected request.
RecordingLookupTimer(t, listed) ==
    LET s == t.sid
        recordingUrl == RecordingUrlOf(RecordingUri(s))
    IN  /\ t \in Due("lookup")
        /\ listed => provider[s].recording
        /\ timers' = timers (-) SetToBag({t})
        /\ IF listed
           THEN /\ calls' = [calls EXCEPT ![s].recordingUrl = recordingUrl]
                /\ recordingsMap' = [recordingsMap EXCEPT ![s] =
                       [sid |-> ProviderRecordingSid(s), url |-> recordingUrl,
                        duration |-> ProviderRecordingDuration(
                                        provider[s].hist, provider[s].duration)]]
                /\ out' = <<broadcastCallStatus(s, "recording-ready",
                               ProviderRecordingDuration(
                                   provider[s].hist, provider[s].duration),
                               recordingUrl)>>
           ELSE /\ UNCHANGED <<calls, recordingsMap>>
                /\ out' = <<>>
        /\ UNCHANGED <<clockVars, twilioClient, activeCalls, wsVars, provider,
                       reqVars>>

(* ------------------------- GET /call-status/:sid ----------------------- *)
\* The first condition of the handler: ask the provider about this call.
PollsProvider(s) ==
    /\ twilioClient
    /\ s \in activeCalls
    /\ calls[s].status \in activeStatuses

\* if (cachedCall.status === 'in-progress' && cachedCall.answeredTime)
\*     cachedCall.duration = Math.floor((Date.now() - cachedCall.answeredTime) / 1000)
LiveDuration(call) ==
    IF call.status = "in-progress" /\ call.answeredTime # 0
    THEN [call EXCEPT !.duration = ElapsedSeconds(now, call.answeredTime)]
    ELSE call

\* Mutant: a query that did not see the call end answers an error.
CachedAnswerError(s, call) ==
    Response("call-status", s, 500, Null, 0, Null)

\* The answer from the cached record.
CachedAnswer(s, call) ==
    Response("call-status", s, 200, call.status, call.duration, call.recordingUrl)

\* The handler up to `await twilioClient.calls(sid).fetch()`, for a cached
\* call in an active status.
PollStart(s) ==
    /\ PollsProvider(s)
    /\ pending[s] = Idle
    /\ \E r \in FetchReplies(provider[s]) :
          pending' = [pending EXCEPT ![s] = [pc |-> "active", reply |-> r]]
    /\ out' = <<>>
    /\ UNCHANGED <<clockVars, twilioClient, storeVars, wsVars, timers, provider,
                   makeReq>>

\* A cached call that is not polled: answered from the cache.
PollCached(s) ==
    /\ ~PollsProvider(s)
    /\ s \in activeCalls
    /\ calls' = [calls EXCEPT ![s] = LiveDuration(calls[s])]
    /\ out' = <<CachedAnswer(s, LiveDuration(calls[s]))>>
    /\ UNCHANGED <<clockVars, twilioClient, activeCalls, recordingsMap, wsVars,
                   timers, provider, reqVars>>

\* No cached call and no provider client: 404.
PollNotFound(s) ==
    /\ s \notin activeCalls
    /\ ~twilioClient
    /\ out' = <<Response("call-status", s, 404, Null, 0, Null)>>
    /\ UNCHANGED <<clockVars, twilioClient, storeVars, wsVars, timers, provider,
                   reqVars>>

\* No cached call: the handler up to the second fetch.
PollAbsentStart(s) ==
    /\ s \notin activeCalls
    /\ twilioClient
    /\ pending[s] = Idle
    /\ \E r \in FetchReplies(provider[s]) :
          pending' = [pending EXCEPT ![s] = [pc |-> "absent", reply |-> r]]
    /\ out' = <<>>
    /\ UNCHANGED <<clockVars, twilioClient, storeVars, wsVars, timers, provider,
                   makeReq>>

\* The provider reports a terminal status and the cached one is not terminal.
PollSeesEnd(call, twilioStatus) ==
    twilioStatus \in terminalStatuses /\ call.status \notin terminalStatuses

\* parseInt(call.duration) || cachedCall.duration || 0
PollEndDuration(call, duration) == OrNum(OrNum(ParseInt(duration), call.duration), 0)

\* cachedCall.status = twilioStatus; cachedCall.duration = duration
PollEnd(call, twilioStatus, duration) ==
    [call EXCEPT !.status = twilioStatus,
                 !.duration = PollEndDuration(call, duration)]

\* Mutant: the fetched status is not stored.
PollStatusKeeps(call, twilioStatus) == call

\* if (twilioStatus !== cachedCall.status) { cachedCall.status = twilioStatus;
\*     if (twilioStatus === 'in-progress' && !cachedCall.answeredTime)
\*         cachedCall.answeredTime = Date.now() }
PollStatus(call, twilioStatus) ==
    IF twilioStatus # call.status
    THEN [call EXCEPT !.status = twilioStatus,
                      !.answeredTime = IF twilioStatus = "in-progress" /\ @ = 0
                                       THEN now ELSE @]
    ELSE call

\* Mutant: the end of the call is answered and not broadcast.
PollEndOutputsSilent(s, call) ==
    <<Response("call-status", s, 200, call.status, call.duration, call.recordingUrl)>>

\* The outputs of the branch that detects the end of the call: the broadcast,
\* then the response.
PollEndOutputs(s, call) ==
    <<broadcastCallStatus(s, call.status, call.duration, call.recordingUrl),
      Response("call-status", s, 200, call.status, call.duration, call.recordingUrl)>>

\* The handler after the fetch of an active call.
PollResume(s) ==
    LET r == pending[s].reply
        call == calls[s]
        merged == IF ~r.ok THEN LiveDuration(call)
                  ELSE IF PollSeesEnd(call, r.status)
                       THEN PollEnd(call, r.status, r.duration)
                       ELSE LiveDuration(PollStatus(call, r.status))
    IN  /\ pending[s].pc = "active"
        /\ calls' = [calls EXCEPT ![s] = merged]
        /\ out' = IF r.ok /\ PollSeesEnd(call, r.status)
                  THEN PollEndOutputs(s, merged)
                  ELSE <<CachedAnswer(s, merged)>>
        /\ pending' = [pending EXCEPT ![s] = Idle]
        /\ UNCHANGED <<clockVars, twilioClient, activeCalls, recordingsMap,
                       wsVars, timers, provider, makeReq>>

\* Mutant: the fetched call is stored as a new record.
PollAbsentResumeStores(s) ==
    LET r == pending[s].reply
    IN  /\ pending[s].pc = "absent"
        /\ activeCalls' = IF r.ok THEN activeCalls \cup {s} ELSE activeCalls
        /\ calls' = IF r.ok THEN [calls EXCEPT ![s] = [NewCall EXCEPT !.status = r.status]]
                    ELSE calls
        /\ out' = IF r.ok
                  THEN <<Response("call-status", s, 200, r.status,
                                  OrNum(ParseInt(r.duration), 0), Null)>>
                  ELSE <<Response("call-status", s, 404, Null, 0, Null)>>
        /\ pending' = [pending EXCEPT ![s] = Idle]
        /\ UNCHANGED <<clockVars, twilioClient, recordingsMap, wsVars, timers,
                       provider, makeReq>>

\* The handler after the fetch of a call that is not cached.
PollAbsentResume(s) ==
    LET r == pending[s].reply
    IN  /\ pending[s].pc = "absent"
        /\ out' = IF r.ok
                  THEN <<Response("call-status", s, 200, r.status,
                                  OrNum(ParseInt(r.duration), 0), Null)>>
                  ELSE <<Response("call-status", s, 404, Null, 0, Null)>>
        /\ pending' = [pending EXCEPT ![s] = Idle]
        /\ UNCHANGED <<clockVars, twilioClient, storeVars, wsVars, timers,
                       provider, makeReq>>

(* --------------------------- POST /hangup-call ------------------------- *)
\* let duration = 0; if (cachedCall && cachedCall.answeredTime)
\*     duration = Math.floor((Date.now() - cachedCall.answeredTime) / 1000)
HangupDuration(s) ==
    IF s \in activeCalls /\ calls[s].answeredTime # 0
    THEN ElapsedSeconds(now, calls[s].answeredTime)
    ELSE 0

\* cachedCall.status = 'completed'; cachedCall.duration = duration
HangupMark(call, duration) ==
    [call EXCEPT !.status = "completed", !.duration = duration]

\* The replies to calls(sid).update({status: 'completed'}): the call is ended
\* (only a call that is still live), or the request is rejected with a code.
UpdateReplies(call) ==
    {[ok |-> FALSE, code |-> c] : c \in ErrorCodes}
    \cup (IF call.hist # {} /\ Current(call.hist) \notin terminalStatuses
         THEN {[ok |-> TRUE, code |-> 0]} ELSE {})

\* The provider's call after an accepted update.
ProviderHangup(call, d) ==
    [call EXCEPT !.hist = @ \cup {"completed"},
                 !.duration = IF "in-progress" \in call.hist THEN d ELSE "0"]

\* if (!sid) return res.status(400)
HangupNoSid ==
    /\ out' = <<Response("hangup-call", Null, 400, Null, 0, Null)>>
    /\ UNCHANGED <<clockVars, twilioClient, storeVars, wsVars, timers, provider,
                   reqVars>>

\* The whole handler when there is no provider client.
HangupLocal(s) ==
    LET duration == HangupDuration(s)
    IN  /\ ~twilioClient
        /\ calls' = IF s \in activeCalls
                    THEN [calls EXCEPT ![s] = HangupMark(calls[s], duration)]
                    ELSE calls
        /\ out' = <<broadcastCallStatus(s, "completed", duration, Null),
                    Response("hangup-call", s, 200, "completed", duration, Null)>>
        /\ UNCHANGED <<clockVars, twilioClient, activeCalls, recordingsMap,
                       wsVars, timers, provider, reqVars>>

\* The handler up to `await twilioClient.calls(sid).update(...)`.
HangupStart(s) ==
    /\ twilioClient
    /\ pending[s] = Idle
    /\ \E r \in UpdateReplies(provider[s]) : \E d \in ProviderDurations :
          /\ pending' = [pending EXCEPT ![s] =
                 [pc |-> "update", cached |-> s \in activeCalls,
                  duration |-> HangupDuration(s), reply |-> r]]
          /\ provider' = IF r.ok
                         THEN [provider EXCEPT ![s] = ProviderHangup(provider[s], d)]
                         ELSE provider
    /\ out' = <<>>
    /\ UNCHANGED <<clockVars, twilioClient, storeVars, wsVars, timers, makeReq>>

\* Mutant: every rejection is answered with 500.
HangupErrorOutputsRethrow(s, code, duration) ==
    <<Response("hangup-call", s, 500, Null, 0, Null)>>

\* The outputs of the catch block: success for error.code 20404, else 500.
HangupErrorOutputs(s, code, duration) ==
    IF code = NotFoundCode
    THEN <<broadcastCallStatus(s, "completed", duration, Null),
           Response("hangup-call", s, 200, "completed", duration, Null)>>
    ELSE <<Response("hangup-call", s, 500, Null, 0, Null)>>

\* The handler after the update: the try block's rest, or the catch block.
HangupResume(s) ==
    LET h == pending[s]
        \* cachedCall?.recordingUrl || null
        url == IF h.cached THEN calls[s].recordingUrl ELSE Null
    IN  /\ h.pc = "update"
        /\ calls' = IF h.reply.ok /\ h.cached
                    THEN [calls EXCEPT ![s] = HangupMark(calls[s], h.duration)]
                    ELSE calls
        /\ out' = IF h.reply.ok
                  THEN <<broadcastCallStatus(s, "completed", h.duration, url),
                         Response("hangup-call", s, 200, "completed", h.duration, url)>>
                  ELSE HangupErrorOutputs(s, h.reply.code, h.duration)
        /\ pending' = [pending EXCEPT ![s] = Idle]
        /\ UNCHANGED <<clockVars, twilioClient, activeCalls, recordingsMap,
                       wsVars, timers, provider, makeReq>>

(* ----------------------------- POST /make-call ------------------------- *)
\* if (!to) 400; if (!twilioClient) 500
MakeCallRefused(to) ==
    /\ ~TruthyStr(to) \/ ~twilioClient
    /\ out' = <<Response("make-call", Null, IF ~TruthyStr(to) THEN 400 ELSE 500,
                         Null, 0, Null)>>
    /\ UNCHANGED <<clockVars, twilioClient, storeVars, wsVars, timers, provider,
                   reqVars>>

\* The replies to calls.create: a rejection, or a call with a sid not issued
\* before.
CreateReplies ==
    {[ok |-> FALSE, sid |-> Null]}
    \cup {[ok |-> TRUE, sid |-> s] : s \in {i \in IssuedSids : provider[i].hist = {}}}

\* The handler up to `await twilioClient.calls.create(...)`; the provider
\* queues the call it creates.
MakeCallStart(to) ==
    /\ TruthyStr(to)
    /\ twilioClient
    /\ makeReq = Idle
    /\ \E r \in CreateReplies :
          /\ makeReq' = [pc |-> "create", reply |-> r]
          /\ provider' = IF r.ok
                         THEN [provider EXCEPT ![r.sid].hist = {"queued"}]
                         ELSE provider
    /\ out' = <<>>
    /\ UNCHANGED <<clockVars, twilioClient, storeVars, wsVars, timers, pending>>

\* The handler after calls.create: store the record, broadcast, answer; or
\* the catch block.
MakeCallResume ==
    LET r == makeReq.reply
    IN  /\ makeReq.pc = "create"
        /\ IF r.ok
           THEN /\ activeCalls' = activeCalls \cup {r.sid}
                /\ calls' = [calls EXCEPT ![r.sid] = NewCall]
                /\ out' = <<broadcastCallStatus(r.sid, "initiated", 0, Null),
                            Response("make-call", r.sid, 200, Null, 0, Null)>>
           ELSE /\ UNCHANGED <<activeCalls, calls>>
                /\ out' = <<Response("make-call", Null, 500, Null, 0, Null)>>
        /\ makeReq' = Idle
        /\ UNCHANGED <<clockVars, twilioClient, recordingsMap, wsVars, timers,
                       provider, pending>>

(* -------------------- POST /webhooks/recording-status ------------------ *)
\* Mutant: the recording status is not looked at.
RecordingAcceptedAnyStatus(RecordingStatus, RecordingUrl) ==
    TruthyStr(RecordingUrl)

\* RecordingStatus === 'completed' && RecordingUrl
RecordingAccepted(RecordingStatus, RecordingUrl) ==
    RecordingStatus = "completed" /\ TruthyStr(RecordingUrl)

\* const playableUrl = RecordingUrl + '.mp3'
PlayableUrl(RecordingUrl) == RecordingUrl \o ".mp3"

RecordingWebhook(s, RecordingStatus, RecordingUrl, RecordingDuration) ==
    LET playableUrl == PlayableUrl(RecordingUrl)
        RecordingSid == ProviderRecordingSid(s)
        duration == OrNum(ParseInt(RecordingDuration), 0)
    IN  /\ RecordingStatus = "completed" => provider[s].recording
        /\ IF RecordingAccepted(RecordingStatus, RecordingUrl)
           THEN /\ calls' = IF s \in activeCalls
                            THEN [calls EXCEPT ![s].recordingUrl = playableUrl,
                                               ![s].recordingSid = RecordingSid]
                            ELSE calls
                /\ recordingsMap' = [recordingsMap EXCEPT ![s] =
                       [sid |-> RecordingSid, url |-> playableUrl,
                        duration |-> duration]]
                /\ out' = <<broadcastCallStatus(s, "recording-ready", duration,
                                                playableUrl),
                            Response("recording-webhook", s, 200, Null, 0, Null)>>
           ELSE /\ UNCHANGED <<calls, recordingsMap>>
                /\ out' = <<Response("recording-webhook", s, 200, Null, 0, Null)>>
        /\ UNCHANGED <<clockVars, twilioClient, activeCalls, wsVars, timers,
                       provider, reqVars>>

(* ------------------------ GET /recording/:callSid ---------------------- *)
\* res.json / res.status(404).json of the recording query and of the audio
\* proxy; source is Null in a 404.
RecordingResponse(op, sid, code, recordingUrl, duration, source) ==
    [type |-> "RESPONSE", op |-> op, callSid |-> sid, code |-> code,
     status |-> Null, duration |-> duration, recordingUrl |-> recordingUrl,
     source |-> source]

\* cachedRecording && cachedRecording.url
InRecordingsMap(s) == TruthyStr(recordingsMap[s].url)

\* cachedCall && cachedCall.recordingUrl
InActiveCalls(s) == s \in activeCalls /\ TruthyStr(calls[s].recordingUrl)

\* The descriptor made from recordings[0] of recordings.list.
ListedRecording(s) ==
    [sid |-> ProviderRecordingSid(s), url |-> RecordingUrlOf(RecordingUri(s)),
     duration |-> ProviderRecordingDuration(provider[s].hist, provider[s].duration)]

\* The recording index holds a descriptor with a URL: answered from it.
RecordingQueryCached(s) ==
    /\ InRecordingsMap(s)
    /\ out' = <<RecordingResponse("recording", s, 200, recordingsMap[s].url,
                                  recordingsMap[s].duration, "cache")>>
    /\ UNCHANGED <<clockVars, twilioClient, storeVars, wsVars, timers, provider,
                   reqVars>>

\* Else the call record holds a recording URL: answered from the record.
RecordingQueryActive(s) ==
    /\ ~InRecordingsMap(s)
    /\ InActiveCalls(s)
    /\ out' = <<RecordingResponse("recording", s, 200, calls[s].recordingUrl,
                                  calls[s].duration, "active-cache")>>
    /\ UNCHANGED <<clockVars, twilioClient, storeVars, wsVars, timers, provider,
                   reqVars>>

\* Else, with no provider client: 404.
RecordingQueryNotFound(s) ==
    /\ ~InRecordingsMap(s)
    /\ ~InActiveCalls(s)
    /\ ~twilioClient
    /\ out' = <<RecordingResponse("recording", s, 404, Null, 0, Null)>>
    /\ UNCHANGED <<clockVars, twilioClient, storeVars, wsVars, timers, provider,
                   reqVars>>

\* Else the handler up to `await twilioClient.recordings.list(...)`;
\* listed = FALSE is an empty list or a rejected request.
RecordingQueryStart(s) ==
    /\ ~InRecordingsMap(s)
    /\ ~InActiveCalls(s)
    /\ twilioClient
    /\ pending[s] = Idle
    /\ \E listed \in BOOLEAN :
          /\ listed => provider[s].recording
          /\ pending' = [pending EXCEPT ![s] = [pc |-> "list", listed |-> listed]]
    /\ out' = <<>>
    /\ UNCHANGED <<clockVars, twilioClient, storeVars, wsVars, timers, provider,
                   makeReq>>

\* The handler after recordings.list: the listed recording is put in the
\* recording index and answered, or 404.
RecordingQueryResume(s) ==
    LET recording == ListedRecording(s)
    IN  /\ pending[s].pc = "list"
        /\ IF pending[s].listed
           THEN /\ recordingsMap' = [recordingsMap EXCEPT ![s] = recording]
                /\ out' = <<RecordingResponse("recording", s, 200, recording.url,
                                              recording.duration, "twilio-api")>>
           ELSE /\ UNCHANGED recordingsMap
                /\ out' = <<RecordingResponse("recording", s, 404, Null, 0, Null)>>
        /\ pending' = [pending EXCEPT ![s] = Idle]
        /\ UNCHANGED <<clockVars, twilioClient, activeCalls, calls, wsVars,
                       timers, provider, makeReq>>

(* --------------------- GET /recording-audio/:callSid ------------------- *)
\* The answers of the audio proxy for a recording URL: the stream, or 500
\* when the request to the provider fails.
AudioOutputs(s, recordingUrl) ==
    {<<RecordingResponse("recording-audio", s, code, recordingUrl, 0, Null)>> :
        code \in {200, 500}}

\* The URL is in the recording index, else in the call record: streamed.
RecordingAudioCached(s) ==
    /\ InRecordingsMap(s) \/ InActiveCalls(s)
    /\ out' \in AudioOutputs(s, IF InRecordingsMap(s) THEN recordingsMap[s].url
                               ELSE calls[s].recordingUrl)
    /\ UNCHANGED <<clockVars, twilioClient, storeVars, wsVars, timers, provider,
                   reqVars>>

\* No URL and no provider client: 404.
RecordingAudioNotFound(s) ==
    /\ ~InRecordingsMap(s)
    /\ ~InActiveCalls(s)
    /\ ~twilioClient
    /\ out' = <<RecordingResponse("recording-audio", s, 404, Null, 0, Null)>>
    /\ UNCHANGED <<clockVars, twilioClient, storeVars, wsVars, timers, provider,
                   reqVars>>

\* The handler up to `await twilioClient.recordings.list(...)`; listed = FALSE
\* is an empty list or a rejected request.
RecordingAudioStart(s) ==
    /\ ~InRecordingsMap(s)
    /\ ~InActiveCalls(s)
    /\ twilioClient
    /\ pending[s] = Idle
    /\ \E listed \in BOOLEAN :
          /\ listed => provider[s].recording
          /\ pending' = [pending EXCEPT ![s] = [pc |-> "audio", listed |-> listed]]
    /\ out' = <<>>
    /\ UNCHANGED <<clockVars, twilioClient, storeVars, wsVars, timers, provider,
                   makeReq>>

\* The handler after recordings.list: the listed recording is put in the
\* recording index and streamed; 404 for an empty list, 500 (the catch block)
\* for a rejected request.
RecordingAudioResume(s) ==
    LET recording == ListedRecording(s)
        h == pending[s]
    IN  /\ h.pc = "audio"
        /\ IF h.listed
           THEN /\ recordingsMap' = [recordingsMap EXCEPT ![s] = recording]
                /\ out' \in AudioOutputs(s, recording.url)
           ELSE /\ UNCHANGED recordingsMap
                /\ \E code \in {404, 500} :
                      out' = <<RecordingResponse("recording-audio", s, code,
                                                 Null, 0, Null)>>
        /\ pending' = [pending EXCEPT ![s] = Idle]
        /\ UNCHANGED <<clockVars, twilioClient, activeCalls, calls, wsVars,
                       timers, provider, makeReq>>

(* ------------------------- WebSocket connections ----------------------- *)
\* wss.on('connection'): a new socket, open, with no subscription.
WsConnect(c) ==
    /\ readyState[c] = "CLOSED"
    /\ c \notin wsClients
    /\ wsClients' = wsClients \cup {c}
    /\ readyState' = [readyState EXCEPT ![c] = "OPEN"]
    /\ subscribedCallSid' = [subscribedCallSid EXCEPT ![c] = Null]
    /\ out' = <<WsMessage(c, "CONNECTED")>>
    /\ UNCHANGED <<clockVars, twilioClient, storeVars, timers, provider, reqVars>>

\* ws.on('message') with {type: 'PING'}.
WsPing(c) ==
    /\ readyState[c] = "OPEN"
    /\ out' = <<WsMessage(c, "PONG")>>
    /\ UNCHANGED <<clockVars, twilioClient, storeVars, wsVars, timers, provider,
                   reqVars>>

\* ws.on('message') with {type: 'SUBSCRIBE_CALL', callSid}: the filter is set
\* when callSid is truthy.
WsSubscribe(c, callSid) ==
    /\ readyState[c] = "OPEN"
    /\ subscribedCallSid' = IF TruthyStr(callSid)
                            THEN [subscribedCallSid EXCEPT ![c] = callSid]
                            ELSE subscribedCallSid
    /\ out' = <<>>
    /\ UNCHANGED <<clockVars, twilioClient, storeVars, wsClients, readyState,
                   timers, provider, reqVars>>

\* The connection starts closing (a close frame, a failed send, a lost
\* socket): the socket is no longer OPEN and no handler has run yet.
WsClosing(c) ==
    /\ readyState[c] = "OPEN"
    /\ readyState' = [readyState EXCEPT ![c] = "CLOSING"]
    /\ out' = <<>>
    /\ UNCHANGED <<clockVars, twilioClient, storeVars, wsClients,
                   subscribedCallSid, timers, provider, reqVars>>

\* ws.on('error'), emitted for a socket that is closing after a failure.
WsError(c) ==
    /\ readyState[c] = "CLOSING"
    /\ c \in wsClients
    /\ wsClients' = wsClients \ {c}
    /\ out' = <<>>
    /\ UNCHANGED <<clockVars, twilioClient, storeVars, readyState,
                   subscribedCallSid, timers, provider, reqVars>>

\* ws.on('close'), emitted once, when the socket has closed; the socket
\* object, and its subscription with it, is dropped.
WsClose(c) ==
    /\ readyState[c] = "CLOSING"
    /\ readyState' = [readyState EXCEPT ![c] = "CLOSED"]
    /\ wsClients' = wsClients \ {c}
    /\ subscribedCallSid' = [subscribedCallSid EXCEPT ![c] = Null]
    /\ out' = <<>>
    /\ UNCHANGED <<clockVars, twilioClient, storeVars, timers, provider, reqVars>>

(* --------------------------- specifications ---------------------------- *)
\* The clock, the provider's calls and the timers.
Environment(S) ==
    \/ Tick
    \/ \E s \in S : ProviderAdvance(s)
    \/ \E t \in Due("evict") : EvictionTimer(t)
    \/ \E t \in Due("lookup"), listed \in BOOLEAN : RecordingLookupTimer(t, listed)

\* The handlers that read and write the status, the duration and the answer
\* time of a call, for the calls of S, the CallDuration fields of D and the
\* RecordingUrl fields of U.
StatusHandlers(S, D, U) ==
    \/ \E s \in S, st \in Statuses, d \in D, u \in U :
          CallStatusWebhook(s, st, d, u)
    \/ \E s \in S : PollStart(s)
    \/ \E s \in S : PollCached(s)
    \/ \E s \in S : PollNotFound(s)
    \/ \E s \in S : PollAbsentStart(s)
    \/ \E s \in S : PollResume(s)
    \/ \E s \in S : PollAbsentResume(s)
    \/ \E s \in S : HangupLocal(s)
    \/ \E s \in S : HangupStart(s)
    \/ \E s \in S : HangupResume(s)
    \/ \E to \in ToInputs : MakeCallStart(to)
    \/ MakeCallResume

\* The requests refused before any await.
Refusals ==
    \/ HangupNoSid
    \/ \E to \in ToInputs : MakeCallRefused(to)

\* The recordings: the provider finishes one, the recording webhook.
RecordingHandlers(S, D) ==
    \/ \E s \in S : ProviderRecordingReady(s)
    \/ \E s \in S, rs \in {"completed", "failed"}, u \in UrlInputs, d \in D :
          RecordingWebhook(s, rs, u, d)

\* The recording query.
RecordingQueries(S) ==
    \/ \E s \in S : RecordingQueryCached(s)
    \/ \E s \in S : RecordingQueryActive(s)
    \/ \E s \in S : RecordingQueryNotFound(s)
    \/ \E s \in S : RecordingQueryStart(s)
    \/ \E s \in S : RecordingQueryResume(s)

\* The audio proxy.
RecordingAudio(S) ==
    \/ \E s \in S : RecordingAudioCached(s)
    \/ \E s \in S : RecordingAudioNotFound(s)
    \/ \E s \in S : RecordingAudioStart(s)
    \/ \E s \in S : RecordingAudioResume(s)

\* The WebSocket connections.
Connections ==
    \/ \E c \in Clients : WsConnect(c)
    \/ \E c \in Clients : WsPing(c)
    \/ \E c \in Clients, s \in Sids \cup {Null} : WsSubscribe(c, s)
    \/ \E c \in Clients : WsClosing(c)
    \/ \E c \in Clients : WsError(c)
    \/ \E c \in Clients : WsClose(c)

\* The life of the call the provider issues, with no WebSocket client and no
\* recording: what the three channels do to the record.
Next == Environment(IssuedSids) \/ StatusHandlers(IssuedSids, DurStrings, {Null})

Spec == Init /\ [][Next]_vars

\* The same server with the scheduling Node guarantees: time passes, and a
\* timer whose delay has elapsed runs.  Nothing obliges the provider or the
\* clients to send a request.
Fairness ==
    /\ WF_vars(Tick)
    /\ WF_vars(\E t \in Due("evict") : EvictionTimer(t))
    /\ WF_vars(\E t \in Due("lookup") : \E listed \in BOOLEAN :
                  RecordingLookupTimer(t, listed))
SpecLive == Init /\ [][Next]_vars /\ Fairness

\* The fan-out: clients connect, subscribe and leave while the handlers
\* broadcast for both sids; the clock stands still.
NextFanout ==
    \/ Connections
    \/ Refusals
    \/ \E to \in ToInputs : MakeCallStart(to)
    \/ MakeCallResume
    \/ \E s \in Sids, st \in Statuses : CallStatusWebhook(s, st, Null, Null)
    \/ \E s \in Sids : HangupLocal(s)
    \/ \E s \in Sids : HangupStart(s)
    \/ \E s \in Sids : HangupResume(s)

SpecFanout == Init /\ [][NextFanout]_vars


\* The recordings of one call: the call is made and runs at the provider, its
\* status and recording webhooks arrive, the timers fire, and the recording is
\* asked for.  The completed status callback may carry the RecordingUrl
\* field.
NextRecording ==
    \/ Environment(IssuedSids)
    \/ \E to \in ToInputs : MakeCallStart(to)
    \/ MakeCallResume
    \/ \E s \in IssuedSids, st \in Statuses :
          CallStatusWebhook(s, st, Null, Null)
    \/ \E s \in IssuedSids, u \in UrlInputs :
          CallStatusWebhook(s, "completed", Null, u)
    \/ RecordingHandlers(IssuedSids, RecordingDurations)
    \/ RecordingQueries(IssuedSids)
SpecRecording == Init /\ [][NextRecording]_vars

\* The status callbacks of one call alone: the call is made and runs at the
\* provider, its callbacks arrive with every CallDuration field, before the
\* record is stored, while it is, and after its eviction, and the timers
\* fire.
NextWebhooks ==
    \/ Environment(IssuedSids)
    \/ \E to \in ToInputs : MakeCallStart(to)
    \/ MakeCallResume
    \/ \E s \in IssuedSids, st \in Statuses, d \in DurStrings :
          CallStatusWebhook(s, st, d, Null)
SpecWebhooks == Init /\ [][NextWebhooks]_vars

(* ------------------------------ properties ----------------------------- *)
\* The messages of the last step that are broadcasts, and its responses.
Events == {i \in 1..Len(out) : out[i].type = "CALL_STATUS_UPDATE"}
Responses == {i \in 1..Len(out) : out[i].type = "RESPONSE"}

\* The step is the resumption of the status query / of the hangup of s.
PollResumes(s) == pending[s].pc = "active" /\ pending'[s] = Idle
HangupResumes(s) == pending[s].pc = "update" /\ pending'[s] = Idle

\* The record of s is in the store before and after the step.
Kept(s) == s \in activeCalls /\ s \in activeCalls'

\* C1: once a record's status is completed, busy, no-answer, canceled or
\* failed, no step (webhook, status query, hangup) changes its status.
C1_TerminalSticky ==
    [][\A s \in Sids :
          Kept(s) /\ calls[s].status \in terminalStatuses
          => calls'[s].status = calls[s].status]_vars

\* C2: the stored duration never decreases from one in-progress state to the
\* next, and never changes once the status is terminal.
C2_DurationMonotoneThenFrozen ==
    [][\A s \in Sids :
          Kept(s) =>
            /\ calls[s].status = "in-progress" /\ calls'[s].status = "in-progress"
               => calls'[s].duration >= calls[s].duration
            /\ calls[s].status \in terminalStatuses
               => calls'[s].duration = calls[s].duration]_vars

\* C3: answeredTime is written at most once: once it is set on a record, no
\* step changes or clears it.
C3_AnsweredOnce ==
    [][\A s \in Sids :
          Kept(s) /\ calls[s].answeredTime # 0
          => calls'[s].answeredTime = calls[s].answeredTime]_vars

\* C3 witness: an in-progress webhook has just been handled for a record
\* that was answered at an earlier time.
C3_Witness ==
    \E s \in activeCalls :
        /\ calls[s].answeredTime # 0
        /\ calls[s].answeredTime < now
        /\ \E i \in Events : out[i].callSid = s /\ out[i].status = "in-progress"

\* C4: a status query whose fetch returns a terminal status while the
\* record's status is not terminal sends exactly one broadcast for that call,
\* carrying that status, and sends it before its response.
C4_PollEndBroadcastsOnce ==
    [][\A s \in Sids :
          (/\ PollResumes(s)
           /\ pending[s].reply.ok
           /\ pending[s].reply.status \in terminalStatuses
           /\ calls[s].status \notin terminalStatuses)
          => /\ Len(out') = 2
             /\ out'[1].type = "CALL_STATUS_UPDATE"
             /\ out'[1].callSid = s
             /\ out'[1].status = pending[s].reply.status
             /\ out'[2].type = "RESPONSE"
             /\ out'[2].op = "call-status"
             /\ out'[2].status = pending[s].reply.status]_vars

\* C4 witness: a status query has just broadcast a terminal status and then
\* answered with it.
C4_Witness ==
    /\ Len(out) = 2
    /\ out[1].type = "CALL_STATUS_UPDATE"
    /\ out[1].status \in terminalStatuses
    /\ out[2].type = "RESPONSE"
    /\ out[2].op = "call-status"

\* C5: a broadcast is sent to a subscriber filtered to call X only if the
\* event is for X, and to every connected subscriber with no filter.
C5_FilterRespected ==
    \A i \in Events :
        /\ \A c \in out[i].to :
              subscribedCallSid[c] = Null \/ subscribedCallSid[c] = out[i].callSid
        /\ \A c \in wsClients :
              readyState[c] = "OPEN" /\ subscribedCallSid[c] = Null
              => c \in out[i].to

\* C5 witness: an event has been broadcast while one connected subscriber is
\* filtered to another call and is not sent it, and one has no filter and is.
C5_Witness ==
    \E i \in Events : \E c, d \in wsClients :
        /\ readyState[c] = "OPEN"
        /\ subscribedCallSid[c] \notin {Null, out[i].callSid}
        /\ c \notin out[i].to
        /\ readyState[d] = "OPEN"
        /\ subscribedCallSid[d] = Null
        /\ d \in out[i].to

\* The connected subscribers of the set whose filter matches the event.
Matching(e) ==
    {c \in wsClients :
        /\ readyState[c] = "OPEN"
        /\ subscribedCallSid[c] \in {Null, e.callSid}}

\* C6 as stated: after a broadcast no subscriber that is not connected is
\* left in the subscriber set, and every connected subscriber whose filter
\* matches has been sent the event.
C6_BroadcastRemovesDisconnected ==
    \A i \in Events :
        /\ \A c \in wsClients : readyState[c] = "OPEN"
        /\ Matching(out[i]) \subseteq out[i].to

\* C6 amended: a broadcast sends nothing to a subscriber that is not
\* connected and leaves it in the subscriber set (the close and error
\* handlers remove it), and every other connected subscriber whose filter
\* matches is sent the event.
C6_BroadcastSkipsDisconnected ==
    [][/\ (\E i \in 1..Len(out') : out'[i].type = "CALL_STATUS_UPDATE")
          => /\ wsClients' = wsClients
             /\ \A i \in 1..Len(out') :
                   out'[i].type = "CALL_STATUS_UPDATE"
                   => out'[i].to =
                        {c \in wsClients :
                            /\ readyState[c] = "OPEN"
                            /\ subscribedCallSid[c] \in {Null, out'[i].callSid}}
       /\ \A c \in Clients :
             /\ (readyState[c] # "CLOSED" /\ readyState'[c] = "CLOSED")
                => c \notin wsClients'
             /\ (c \in wsClients /\ c \notin wsClients')
                => readyState[c] = "CLOSING" /\ out' = <<>>]_vars

\* C6 witness: an event has been broadcast while a subscriber that is no
\* longer connected is in the set, and a connected one has been sent it.
C6_Witness ==
    \E i \in Events : \E c, d \in wsClients :
        /\ readyState[c] = "CLOSING"
        /\ c \notin out[i].to
        /\ readyState[d] = "OPEN"
        /\ d \in out[i].to

\* C7: a hangup the provider rejects with code 20404 answers success with
\* status completed and the duration computed, when the request arrived, from
\* the record's answer time (0 with no record or no answer time), never an
\* error.
C7_HangupGoneIsSuccess ==
    [][\A s \in Sids :
          /\ (pending[s] = Idle /\ pending'[s].pc = "update")
             => pending'[s].duration =
                  IF s \in activeCalls /\ calls[s].answeredTime # 0
                  THEN (now - calls[s].answeredTime) \div MsPerSecond
                  ELSE 0
          /\ (HangupResumes(s) /\ ~pending[s].reply.ok
              /\ pending[s].reply.code = NotFoundCode)
             => \E i \in 1..Len(out') :
                   /\ out'[i].type = "RESPONSE"
                   /\ out'[i].op = "hangup-call"
                   /\ out'[i].code = 200
                   /\ out'[i].status = "completed"
                   /\ out'[i].duration = pending[s].duration
                   /\ \A j \in 1..Len(out') :
                         out'[j].type = "RESPONSE" => j = i]_vars

\* C7 witness: a hangup of an answered call has just been answered with
\* success and a duration above 0 while the record is not marked completed:
\* the provider rejected the update with 20404.
C7_Witness ==
    \E s \in activeCalls : \E i \in Responses :
        /\ twilioClient
        /\ out[i].op = "hangup-call"
        /\ out[i].callSid = s
        /\ out[i].code = 200
        /\ out[i].status = "completed"
        /\ out[i].duration > 0
        /\ calls[s].status # "completed"

\* The step answers a hangup request for s that found a record of s when it
\* arrived.
HangupOfRecordEnds(s) ==
    \/ HangupResumes(s) /\ pending[s].cached
    \/ /\ ~twilioClient
       /\ s \in activeCalls
       /\ out' # out
       /\ \E i \in 1..Len(out') :
             /\ out'[i].type = "RESPONSE"
             /\ out'[i].op = "hangup-call"
             /\ out'[i].callSid = s

\* C8: when a hangup request for a sid whose record exists has been handled,
\* the record's status is completed and exactly one completed event for the
\* sid has been broadcast, whatever the provider replied.
C8_HangupAlwaysCompletes ==
    [][\A s \in Sids :
          HangupOfRecordEnds(s)
          => /\ calls'[s].status = "completed"
             /\ \E i \in 1..Len(out') :
                   /\ out'[i].type = "CALL_STATUS_UPDATE"
                   /\ out'[i].callSid = s
                   /\ out'[i].status = "completed"
                   /\ \A j \in 1..Len(out') :
                         out'[j].type = "CALL_STATUS_UPDATE" => j = i]_vars

\* C9: a record's status only moves forward through queued / initiated,
\* ringing, in-progress, terminal: no step moves it to an earlier one.
C9_StatusMovesForward ==
    [][\A s \in Sids :
          Kept(s) => Rank(calls'[s].status) >= Rank(calls[s].status)]_vars

\* C10: once a webhook has supplied a duration for an in-progress record (the
\* record holds the supplied value, which no elapsed time of these runs
\* equals), a status query that finds the record still in-progress stores and
\* returns that value.
C10_ProviderDurationKept ==
    [][\A s \in Sids :
          (/\ Kept(s)
           /\ PollResumes(s)
           /\ calls[s].status = "in-progress"
           /\ calls[s].duration = ParseInt("7")
           /\ calls'[s].status = "in-progress")
          => /\ calls'[s].duration = calls[s].duration
             /\ \A i \in 1..Len(out') :
                   out'[i].type = "RESPONSE"
                   => out'[i].duration = calls[s].duration]_vars

\* C11: a record that reaches a terminal status, by a webhook, a status query
\* or a hangup, is not removed from the store by that step, and is removed
\* later, once the retention window has elapsed (the clock of these runs can
\* still pass the window when ticks < MaxTicks).
C11_TerminalEventuallyEvicted ==
    /\ [][\A s \in Sids :
             (/\ s \in activeCalls
              /\ calls[s].status \notin terminalStatuses
              /\ calls'[s].status \in terminalStatuses)
             => s \in activeCalls']_vars
    /\ \A s \in Sids :
          [](s \in activeCalls /\ calls[s].status \in terminalStatuses
             /\ ticks < MaxTicks
             => <>(s \notin activeCalls))

\* The step answers a make-call request with a failure.
MakeCallFails ==
    /\ out' # out
    /\ \E i \in 1..Len(out') :
          /\ out'[i].type = "RESPONSE"
          /\ out'[i].op = "make-call"
          /\ out'[i].code # 200

\* C12: a make-call request that fails (no destination, no provider client,
\* or calls.create rejected) leaves the store unchanged and broadcasts no
\* event; a record enters the store only in the step that resumes a make-call
\* whose calls.create returned that sid, and with status initiated.
C12_FailedMakeCallLeavesNothing ==
    [][/\ MakeCallFails
          => /\ activeCalls' = activeCalls
             /\ calls' = calls
             /\ \A i \in 1..Len(out') : out'[i].type # "CALL_STATUS_UPDATE"
       /\ \A s \in Sids :
             (s \notin activeCalls /\ s \in activeCalls')
             => /\ makeReq.pc = "create"
                /\ makeReq.reply.ok
                /\ makeReq.reply.sid = s
                /\ calls'[s].status = "initiated"]_vars

\* C12 witness: with a provider client and a subscriber connected, a
\* make-call has just been answered 500 (calls.create was rejected).
C12_Witness ==
    /\ twilioClient
    /\ \E c \in wsClients : readyState[c] = "OPEN"
    /\ \E i \in Responses : out[i].op = "make-call" /\ out[i].code = 500

\* The step leaves the store and the recording index as they are.
StoreUnchanged ==
    /\ activeCalls' = activeCalls
    /\ calls' = calls
    /\ recordingsMap' = recordingsMap

\* C13: a status query for a sid that is not in the store creates no record
\* and broadcasts nothing: with a provider client it fetches and answers the
\* fetched status and duration (404 when the fetch fails), without one it
\* answers 404.
C13_AbsentQueryCreatesNothing ==
    [][\A s \in Sids :
          /\ (pending[s] = Idle /\ pending'[s].pc = "absent")
             => /\ s \notin activeCalls
                /\ twilioClient
                /\ StoreUnchanged
                /\ out' = <<>>
          /\ (pending[s].pc = "absent" /\ pending'[s] = Idle)
             => /\ StoreUnchanged
                /\ Len(out') = 1
                /\ out'[1].type = "RESPONSE"
                /\ out'[1].op = "call-status"
                /\ out'[1].callSid = s
                /\ IF pending[s].reply.ok
                   THEN /\ out'[1].code = 200
                        /\ out'[1].status = pending[s].reply.status
                        /\ out'[1].duration
                             = (IF ParseInt(pending[s].reply.duration) > 0
                                THEN ParseInt(pending[s].reply.duration) ELSE 0)
                   ELSE out'[1].code = 404
          /\ (/\ s \notin activeCalls
              /\ ~twilioClient
              /\ out' # out
              /\ \E i \in 1..Len(out') :
                    /\ out'[i].type = "RESPONSE"
                    /\ out'[i].op = "call-status"
                    /\ out'[i].callSid = s)
             => /\ StoreUnchanged
                /\ Len(out') = 1
                /\ out'[1].code = 404]_vars

\* C13 witness: a status query for a sid that was never in the store (no
\* eviction can have happened yet) has just been answered with the status the
\* provider returned.
C13_Witness ==
    \E s \in Sids \ activeCalls :
        /\ ticks = 0
        /\ Len(out) = 1
        /\ out[1].type = "RESPONSE"
        /\ out[1].op = "call-status"
        /\ out[1].callSid = s
        /\ out[1].code = 200
        /\ out[1].status \in Statuses

\* The delayed recording lookup a completion webhook of s scheduled has not
\* fired yet.
LookupPending(s) ==
    \E t \in BagToSet(timers) : t.kind = "lookup" /\ t.sid = s

\* The step handles a recording webhook.
RecordingWebhookStep ==
    /\ out' # out
    /\ \E i \in 1..Len(out') :
          out'[i].type = "RESPONSE" /\ out'[i].op = "recording-webhook"

\* C14: when a completed recording webhook with RecordingUrl = U has arrived
\* after the completion webhook of the call (the index holds U + '.mp3' while
\* the lookup that webhook scheduled is pending), every step but a further
\* recording webhook, the firing of the lookup included, leaves U + '.mp3' in
\* the index, and a recording query is answered U + '.mp3' from the cache.
C14_WebhookRecordingUrlKept ==
    [][\A s \in Sids : \A U \in UrlInputs \ {Null} :
          (/\ recordingsMap[s].url = PlayableUrl(U)
           /\ LookupPending(s)
           /\ ~RecordingWebhookStep)
          => /\ recordingsMap'[s].url = PlayableUrl(U)
             /\ \A i \in 1..Len(out') :
                   (/\ out' # out
                    /\ out'[i].type = "RESPONSE"
                    /\ out'[i].op = "recording"
                    /\ out'[i].callSid = s)
                   => /\ out'[i].recordingUrl = PlayableUrl(U)
                      /\ out'[i].source = "cache"]_vars

\* The step broadcasts an event.
Broadcasts ==
    /\ out' # out
    /\ \E i \in 1..Len(out') : out'[i].type = "CALL_STATUS_UPDATE"

\* C15: a recording webhook whose RecordingStatus is not completed changes
\* neither the call records nor the recording index and broadcasts nothing; a
\* recording webhook that changes one of them or broadcasts is a completed
\* one (with a RecordingUrl).
C15_OnlyCompletedRecordingUpdates ==
    [][RecordingWebhookStep
       => /\ \A s \in Sids, u \in UrlInputs, d \in DurStrings :
                RecordingWebhook(s, "failed", u, d)
                => /\ StoreUnchanged
                   /\ Len(out') = 1
                   /\ out'[1].type = "RESPONSE"
          /\ (~StoreUnchanged \/ Broadcasts)
             => \E s \in Sids, u \in UrlInputs \ {Null}, d \in DurStrings :
                   RecordingWebhook(s, "completed", u, d)]_vars

\* C15 witness: a recording webhook has just been answered for a call that
\* has a record and no recording at the provider (so its status was not
\* completed), and nothing was broadcast.
C15_Witness ==
    \E s \in activeCalls :
        /\ ~provider[s].recording
        /\ Len(out) = 1
        /\ out[1].type = "RESPONSE"
        /\ out[1].op = "recording-webhook"
        /\ out[1].callSid = s

\* C16: once the recording index holds a descriptor for a sid it holds one
\* after every step, the eviction of the call record included, and a
\* recording query for the sid that arrives then (not one that was already
\* waiting for the provider's list) is answered 200 from the cache with the
\* descriptor's URL.
C16_RecordingsNeverEvicted ==
    [][\A s \in Sids :
          recordingsMap[s] # NoRecording
          => /\ recordingsMap'[s] # NoRecording
             /\ \A i \in 1..Len(out') :
                   (/\ out' # out
                    /\ pending[s].pc # "list"
                    /\ out'[i].type = "RESPONSE"
                    /\ out'[i].op = "recording"
                    /\ out'[i].callSid = s)
                   => /\ out'[i].code = 200
                      /\ out'[i].source = "cache"
                      /\ out'[i].recordingUrl = recordingsMap[s].url]_vars

\* C16 witness: the call record of a sid was evicted, and a recording query
\* for the sid has just been answered from the cache.
C16_Witness ==
    \E s \in Sids \ activeCalls :
        /\ calls[s] # NoCall
        /\ recordingsMap[s] # NoRecording
        /\ Len(out) = 1
        /\ out[1].type = "RESPONSE"
        /\ out[1].op = "recording"
        /\ out[1].callSid = s
        /\ out[1].source = "cache"

\* C17: a status query is suspended only at its fetch; when a webhook made
\* the record terminal during the suspension (the record was in an active
\* status when the query started) and the fetch returned an older,
\* non-terminal status, the record still has the webhook's terminal status
\* after the query has resumed.
C17_WebhookDuringPollKept ==
    [][\A s \in Sids :
          (/\ PollResumes(s)
           /\ calls[s].status \in terminalStatuses
           /\ pending[s].reply.ok
           /\ pending[s].reply.status \notin terminalStatuses)
          => calls'[s].status = calls[s].status]_vars

\* C18: a status query whose fetch returns a non-terminal status broadcasts
\* nothing, leaves the fetched status in the record, and answers it.
C18_ActivePollIsSilent ==
    [][\A s \in Sids :
          (/\ PollResumes(s)
           /\ pending[s].reply.ok
           /\ pending[s].reply.status \notin terminalStatuses)
          => /\ calls'[s].status = pending[s].reply.status
             /\ Len(out') = 1
             /\ out'[1].type = "RESPONSE"
             /\ out'[1].op = "call-status"
             /\ out'[1].code = 200
             /\ out'[1].status = pending[s].reply.status]_vars

\* C18 witness: a status query has just answered ringing, the provider's
\* status of the call, with no broadcast, and the record holds ringing.
C18_Witness ==
    \E s \in activeCalls :
        /\ provider[s].hist # {}
        /\ Current(provider[s].hist) = "ringing"
        /\ calls[s].status = "ringing"
        /\ Len(out) = 1
        /\ out[1].type = "RESPONSE"
        /\ out[1].op = "call-status"
        /\ out[1].callSid = s
        /\ out[1].status = "ringing"

\* C19: a status query whose fetch fails for a sid with a record leaves the
\* record's status as it is and answers 200 with the record's status,
\* duration and recording URL.
C19_FailedFetchAnswersCache ==
    [][\A s \in Sids :
          (PollResumes(s) /\ ~pending[s].reply.ok)
          => /\ calls'[s].status = calls[s].status
             /\ Len(out') = 1
             /\ out'[1].type = "RESPONSE"
             /\ out'[1].op = "call-status"
             /\ out'[1].code = 200
             /\ out'[1].status = calls[s].status
             /\ out'[1].duration = calls'[s].duration
             /\ out'[1].recordingUrl = calls[s].recordingUrl]_vars

\* C19 witness: a status query has just answered the record's active status
\* while the provider's call has ended: the query did not learn the
\* provider's status.
C19_Witness ==
    \E s \in activeCalls :
        /\ provider[s].hist # {}
        /\ Current(provider[s].hist) \in terminalStatuses
        /\ calls[s].status \in activeStatuses
        /\ Len(out) = 1
        /\ out[1].type = "RESPONSE"
        /\ out[1].op = "call-status"
        /\ out[1].callSid = s
        /\ out[1].code = 200
        /\ out[1].status = calls[s].status

\* The step handles a call-status webhook for s with status st.
CallStatusWebhookStep(s, st) ==
    /\ Len(out') = 2
    /\ out'[1].type = "CALL_STATUS_UPDATE"
    /\ out'[1].callSid = s
    /\ out'[1].status = st
    /\ out'[2].type = "RESPONSE"
    /\ out'[2].op = "call-status-webhook"
    /\ out'[2].callSid = s

\* The timers of s, of one kind, set at the time of the step.
SetNow(kind, s) ==
    SetToBag({[kind |-> kind, sid |-> s, due |-> now + (IF kind = "lookup"
                                                        THEN RecordingDelayMs
                                                        ELSE RetentionMs)]})

\* C20 as stated: a call-status webhook with a terminal status for a sid
\* that has a record with no recording URL starts one recording lookup and
\* one eviction timer for the sid.
C20_TerminalWebhookStartsLookup ==
    [][\A s \in Sids : \A st \in terminalStatuses :
          (/\ CallStatusWebhookStep(s, st)
           /\ s \in activeCalls
           /\ ~TruthyStr(calls'[s].recordingUrl))
          => timers' = timers (+) SetNow("lookup", s) (+) SetNow("evict", s)]_vars

\* C20 amended: a call-status webhook for a sid that has a record starts one
\* recording lookup exactly when its status is completed, the record holds no
\* recording URL and there is a provider client, and one eviction timer
\* exactly when its status is terminal.
C20_CompletedWebhookStartsLookup ==
    [][\A s \in Sids : \A st \in Statuses :
          (CallStatusWebhookStep(s, st) /\ s \in activeCalls)
          => timers' = timers
                (+) (IF /\ st = "completed"
                        /\ ~TruthyStr(calls'[s].recordingUrl)
                        /\ twilioClient
                     THEN SetNow("lookup", s) ELSE EmptyBag)
                (+) (IF st \in terminalStatuses
                     THEN SetNow("evict", s) ELSE EmptyBag)]_vars

\* C20 witness: a webhook with a terminal status other than completed has
\* just been handled for a record with no recording URL: the eviction of the
\* record is pending and no lookup is.
C20_Witness ==
    \E s \in activeCalls :
        /\ Len(out) = 2
        /\ out[1].type = "CALL_STATUS_UPDATE"
        /\ out[1].callSid = s
        /\ out[1].status \in terminalStatuses \ {"completed"}
        /\ out[2].type = "RESPONSE"
        /\ out[2].op = "call-status-webhook"
        /\ ~TruthyStr(calls[s].recordingUrl)
        /\ ~LookupPending(s)
        /\ \E t \in BagToSet(timers) : t.kind = "evict" /\ t.sid = s

\* The step removes the record of s from the store.
Evicts(s) == s \in activeCalls /\ s \notin activeCalls'

\* C21: a record that a step removes from the store has a terminal status
\* when it is removed.
C21_EvictsOnlyTerminal ==
    [][\A s \in Sids : Evicts(s) => calls[s].status \in terminalStatuses]_vars

\* C22: an event for the sid of a call the provider has created, whose
\* record make-call has not stored yet, is the initiated event of the step
\* in which make-call stores the record; so no call-status webhook is
\* handled, and nothing else is broadcast, for the sid before its record
\* exists, a webhook delivered while make-call waits for calls.create
\* included.
C22_InitiatedEventFirst ==
    [][\A s \in Sids : \A i \in 1..Len(out') :
          (/\ out' # out
           /\ out'[i].type = "CALL_STATUS_UPDATE"
           /\ out'[i].callSid = s
           /\ provider[s].hist # {}
           /\ calls[s] = NoCall)
          => /\ s \in activeCalls'
             /\ calls'[s] # NoCall
             /\ out'[i].status = "initiated"]_vars

\* C23: whenever the record of a sid in the store holds a recording URL, the
\* recording index holds a descriptor of the sid with the same URL.
C23_RecordingUrlIndexed ==
    \A s \in activeCalls :
        TruthyStr(calls[s].recordingUrl)
        => /\ recordingsMap[s] # NoRecording
           /\ recordingsMap[s].url = calls[s].recordingUrl

\* The step answers a call-status webhook for s.
WebhookResponds(s) ==
    /\ Len(out') >= 1
    /\ out'[Len(out')].type = "RESPONSE"
    /\ out'[Len(out')].op = "call-status-webhook"
    /\ out'[Len(out')].callSid = s

\* C24: a call-status webhook for a sid with no record in the store changes
\* neither the store nor the recording index, sets no timer, and broadcasts
\* one event for the sid, with the webhook's status and the duration it
\* reports (0 when it reports none).
C24_UnknownSidWebhookOnlyBroadcasts ==
    [][\A s \in Sids :
          (WebhookResponds(s) /\ s \notin activeCalls)
          => /\ activeCalls' = activeCalls
             /\ calls' = calls
             /\ recordingsMap' = recordingsMap
             /\ timers' = timers
             /\ Len(out') = 2
             /\ out'[1].type = "CALL_STATUS_UPDATE"
             /\ out'[1].callSid = s
             /\ \A st \in Statuses, d \in DurStrings :
                   CallStatusWebhook(s, st, d, Null)
                   => /\ out'[1].status = st
                      /\ out'[1].duration = (IF d = "7" THEN 7 ELSE 0)]_vars

\* C24 witness: a webhook reporting the end of a call and a duration of 7
\* seconds has just been handled for a sid whose call the provider has
\* created and which has no record in the store; the event carries both, and
\* no timer is pending.
C24_Witness ==
    \E s \in Sids \ activeCalls :
        /\ provider[s].hist # {}
        /\ timers = EmptyBag
        /\ Len(out) = 2
        /\ out[1].type = "CALL_STATUS_UPDATE"
        /\ out[1].callSid = s
        /\ out[1].status \in terminalStatuses
        /\ out[1].duration = 7
        /\ out[2].type = "RESPONSE"
        /\ out[2].op = "call-status-webhook"

====
